---------------------------- MODULE Spec2Model ----------------------------
(***************************************************************************)
(* State-machine model of fastvpinns' 2D finite-element space              *)
(* (fastvpinns/FE_2D/fespace2d.py, class Fespace2D) and of the spectral    *)
(* tensor-product basis (fastvpinns/FE_2D/basis_2d_QN_Chebyshev_2.py).     *)
(*                                                                         *)
(* Python lists and numpy arrays are TLA+ sequences (1-based); a Python    *)
(* index i addresses element i + 1.  Floating-point values are modelled by *)
(* integers: every array entry is an integer expression of the inputs.     *)
(***************************************************************************)
EXTENDS Integers, Sequences, FiniteSets, TLC

(***************************************************************************)
(* Bounds of the model.                                                    *)
(***************************************************************************)
MaxCells == 2
MaxTags == 2
MaxShape == 9
MaxPoints == 2

(***************************************************************************)
(* Program constants.                                                      *)
(***************************************************************************)
MarkerCount == 16

(***************************************************************************)
(* Input domains.                                                          *)
(***************************************************************************)
QUAD == "quadrilateral"
CellTypes == {QUAD, "triangle", "hexagon"}
Problems == {"scalar", "vector"}
Components == {0, 1}
FeOrders == {1, 2}
QuadOrders == {2}
FirstTag == 1000
Tags == FirstTag .. (FirstTag + MaxTags - 1)
NoValue == <<>>

VARIABLES
    \* constructor arguments (fespace2d.py:94-114)
    cells, boundary_points, cell_type, fe_order, quad_order,
    bound_function_dict, problem, generate_mesh_plot,
    \* object state
    n_cells, fe_cell, total_dofs, total_boundary_dofs, total_dirichlet_dofs,
    dirichlet_boundary_data,
    \* position of the constructor and its loop locals
    pc, error, failed_in, dof, bx, by, ctor_calls,
    \* result of the last accessor call, as held by the caller
    ret,
    \* the stored per-cell arrays as the space itself wrote them
    shadow,
    \* a basis family object and the result of its last evaluation
    basis_pc, num_shape_functions, basis_ret,
    \* the arguments drawn for the basis family and its evaluators
    basis_args

args == <<cells, boundary_points, cell_type, fe_order, quad_order,
          bound_function_dict, problem, generate_mesh_plot>>
totals == <<total_dofs, total_boundary_dofs, total_dirichlet_dofs>>
locals == <<dof, bx, by>>
space_vars == <<args, n_cells, fe_cell, totals, dirichlet_boundary_data,
                pc, error, failed_in, locals, ctor_calls, ret, shadow>>
basis_vars == <<basis_pc, num_shape_functions, basis_ret, basis_args>>
vars == <<space_vars, basis_vars>>

(***************************************************************************)
(* Sequence helpers.                                                       *)
(***************************************************************************)
RECURSIVE SumSeq(_)
SumSeq(s) == IF s = <<>> THEN 0 ELSE Head(s) + SumSeq(Tail(s))

RECURSIVE Concat(_)
Concat(ss) == IF ss = <<>> THEN <<>> ELSE Head(ss) \o Concat(Tail(ss))

Abs(v) == IF v < 0 THEN -v ELSE v

\* Python's list[i]: a negative index counts from the end.
PyInRange(list, i) == -Len(list) <= i /\ i < Len(list)
PyPos(list, i) == IF i >= 0 THEN i + 1 ELSE Len(list) + i + 1

(***************************************************************************)
(* Basis2DQNChebyshev2 (basis_2d_QN_Chebyshev_2.py).                       *)
(*                                                                         *)
(* scipy's jacobi(m, a, b) with a = b = -1/2 is a multiple of the          *)
(* Chebyshev polynomial T_m, so jacobi(m)(x) / jacobi(m)(1) = T_m(x); by   *)
(* d/dx P_m^(a,b) = ((m+a+b+1)/2) P_(m-1)^(a+1,b+1) the scaled terms of    *)
(* dtest_fcn are T_m' and T_m''.  At integer points all are integers.      *)
(***************************************************************************)
RefCoords == {-1, 0, 1}

RECURSIVE ChebT(_, _)
ChebT(m, x) ==
    IF m = 0 THEN 1
    ELSE IF m = 1 THEN x
    ELSE 2 * x * ChebT(m - 1, x) - ChebT(m - 2, x)

RECURSIVE ChebDT(_, _)
ChebDT(m, x) ==
    IF m = 0 THEN 0
    ELSE IF m = 1 THEN 1
    ELSE 2 * ChebT(m - 1, x) + 2 * x * ChebDT(m - 1, x) - ChebDT(m - 2, x)

RECURSIVE ChebDDT(_, _)
ChebDDT(m, x) ==
    IF m <= 1 THEN 0
    ELSE 4 * ChebDT(m - 1, x) + 2 * x * ChebDDT(m - 1, x) - ChebDDT(m - 2, x)

\* jacobi_wrapper(deg, -1/2, -1/2, x) / jacobi_wrapper(deg, -1/2, -1/2, 1)
JacobiValueTerm(deg, x) == ChebT(deg, x)
\* ((deg+1)/2) * jacobi_wrapper(deg, 1/2, 1/2, x) / jacobi_wrapper(deg+1, -1/2, -1/2, 1)
JacobiD1Term(deg, x) == ChebDT(deg + 1, x)
\* ((deg+3)(deg+2)/4) * jacobi_wrapper(deg, 3/2, 3/2, x) / jacobi_wrapper(deg+2, -1/2, -1/2, 1)
JacobiD2Term(deg, x) == ChebDDT(deg + 2, x)

\* One term of a test function or of a derivative of it: sign times the
\* Jacobi polynomial of degree deg at x, scaled by the value at 1 of the
\* polynomial of degree norm with a = b = -1/2.
JacobiTerm(sign, deg, norm) == [sign |-> sign, deg |-> deg, norm |-> norm]

\* Lines 54-58 and 75-79: the terms of test function n.
test_terms(n) ==
    <<JacobiTerm(1, n + 1, n + 1), JacobiTerm(-1, n - 1, n - 1)>>

\* Lines 98-145, d1test: the branches n == 1, n == 2 and else.
d1test_terms(n) ==
    IF n = 1 THEN <<JacobiTerm(1, n, n + 1)>>
    ELSE IF n = 2 THEN <<JacobiTerm(1, n, n + 1), JacobiTerm(-1, n - 2, n - 1)>>
    ELSE <<JacobiTerm(1, n, n + 1), JacobiTerm(-1, n - 2, n - 1)>>

\* dtest_fcn with the branch n == 2 left out of the second derivative.
d2test_terms_general(n) ==
    IF n = 1 THEN <<JacobiTerm(1, n - 1, n + 1)>>
    ELSE <<JacobiTerm(1, n - 1, n + 1), JacobiTerm(-1, n - 3, n - 1)>>

\* Lines 98-145, d2test: the branches n == 1, n == 2 and else.
d2test_terms(n) ==
    IF n = 1 THEN <<JacobiTerm(1, n - 1, n + 1)>>
    ELSE IF n = 2 THEN <<JacobiTerm(1, n - 1, n + 1)>>
    ELSE <<JacobiTerm(1, n - 1, n + 1), JacobiTerm(-1, n - 3, n - 1)>>

\* test_fcnx / test_fcny: row n (1..n_test), column p (one per point of x).
test_fcn(n_test, x) ==
    [n \in 1 .. n_test |->
        [p \in 1 .. Len(x) |->
            LET terms == test_terms(n)
            IN SumSeq([t \in DOMAIN terms |->
                          terms[t].sign * JacobiValueTerm(terms[t].deg, x[p])])]]

\* dtest_fcn(n_test, x)[0]
d1test_fcn(n_test, x) ==
    [n \in 1 .. n_test |->
        [p \in 1 .. Len(x) |->
            LET terms == d1test_terms(n)
            IN SumSeq([t \in DOMAIN terms |->
                          terms[t].sign * JacobiD1Term(terms[t].deg, x[p])])]]

\* dtest_fcn(n_test, x)[1]
d2test_fcn(n_test, x) ==
    [n \in 1 .. n_test |->
        [p \in 1 .. Len(x) |->
            LET terms == d2test_terms(n)
            IN SumSeq([t \in DOMAIN terms |->
                          terms[t].sign * JacobiD2Term(terms[t].deg, x[p])])]]

\* int(np.sqrt(k)): the largest r with r * r <= k.
ISqrt(k) == CHOOSE r \in 0 .. k : r * r <= k /\ (r + 1) * (r + 1) > k

num_shape_func_in_1d(N) == ISqrt(N)

IsPerfectSquare(N) == ISqrt(N) * ISqrt(N) = N

\* np.zeros((num_shape_functions, len(xi)))
Zeros(rows, cols) == [r \in 1 .. rows |-> [c \in 1 .. cols |-> 0]]

\* A block assignment with the roles of the two factors exchanged.
RECURSIVE AssignBlocksExchanged(_, _, _, _, _)
AssignBlocksExchanged(acc, from, n, fx, fy) ==
    IF from >= n THEN acc
    ELSE
        LET lo == n * from
            block == lo + 1 .. lo + n
            next == [values |->
                        [r \in DOMAIN acc.values |->
                            IF r \in block
                            THEN [p \in DOMAIN acc.values[r] |->
                                    fx[r - lo][p] * fy[from + 1][p]]
                            ELSE acc.values[r]],
                     written |-> acc.written \cup block,
                     writes |-> [r \in DOMAIN acc.writes |->
                                    acc.writes[r] + (IF r \in block THEN 1 ELSE 0)]]
        IN AssignBlocksExchanged(next, from + 1, n, fx, fy)

\* One pass of the loop body
\*   values[n*i : n*(i+1), :] = fx[i, :] * fy
\* for i = from .. n - 1, on a record of the array, of the rows written so
\* far and of the number of times each row was written.
RECURSIVE AssignBlocks(_, _, _, _, _)
AssignBlocks(acc, from, n, fx, fy) ==
    IF from >= n THEN acc
    ELSE
        LET lo == n * from
            block == lo + 1 .. lo + n
            next == [values |->
                        [r \in DOMAIN acc.values |->
                            IF r \in block
                            THEN [p \in DOMAIN acc.values[r] |->
                                    fx[from + 1][p] * fy[r - lo][p]]
                            ELSE acc.values[r]],
                     written |-> acc.written \cup block,
                     writes |-> [r \in DOMAIN acc.writes |->
                                    acc.writes[r] + (IF r \in block THEN 1 ELSE 0)]]
        IN AssignBlocks(next, from + 1, n, fx, fy)

\* The common body of value / gradx / grady / gradxx / gradxy / gradyy.
TensorProduct(N, fx, fy, P) ==
    AssignBlocks([values |-> Zeros(N, P), written |-> {},
                  writes |-> [r \in 1 .. N |-> 0]], 0,
                 num_shape_func_in_1d(N), fx, fy)

value(N, xi, eta) ==
    LET n == num_shape_func_in_1d(N)
    IN TensorProduct(N, test_fcn(n, xi), test_fcn(n, eta), Len(xi))

gradx(N, xi, eta) ==
    LET n == num_shape_func_in_1d(N)
    IN TensorProduct(N, d1test_fcn(n, xi), test_fcn(n, eta), Len(xi))

grady(N, xi, eta) ==
    LET n == num_shape_func_in_1d(N)
    IN TensorProduct(N, test_fcn(n, xi), d1test_fcn(n, eta), Len(xi))

gradxx(N, xi, eta) ==
    LET n == num_shape_func_in_1d(N)
    IN TensorProduct(N, d2test_fcn(n, xi), test_fcn(n, eta), Len(xi))

gradxy(N, xi, eta) ==
    LET n == num_shape_func_in_1d(N)
    IN TensorProduct(N, d1test_fcn(n, xi), d1test_fcn(n, eta), Len(xi))

gradyy(N, xi, eta) ==
    LET n == num_shape_func_in_1d(N)
    IN TensorProduct(N, test_fcn(n, xi), d2test_fcn(n, eta), Len(xi))

Evaluators == {"value", "gradx", "grady", "gradxx", "gradxy", "gradyy"}

Evaluate(kind, N, xi, eta) ==
    CASE kind = "value" -> value(N, xi, eta)
      [] kind = "gradx" -> gradx(N, xi, eta)
      [] kind = "grady" -> grady(N, xi, eta)
      [] kind = "gradxx" -> gradxx(N, xi, eta)
      [] kind = "gradxy" -> gradxy(N, xi, eta)
      [] kind = "gradyy" -> gradyy(N, xi, eta)

\* The Jacobi polynomials an evaluator asks jacobi_wrapper for: for every
\* 1D function it calls and every index k, the terms computed.  dtest_fcn
\* computes both derivatives whichever of them the evaluator uses.
Requests(kind, N) ==
    LET n == num_shape_func_in_1d(N)
        T == {[fn |-> "test_fcn", k |-> k, terms |-> test_terms(k)] : k \in 1 .. n}
        D == {[fn |-> "d1test", k |-> k, terms |-> d1test_terms(k)] : k \in 1 .. n}
               \cup {[fn |-> "d2test", k |-> k, terms |-> d2test_terms(k)] : k \in 1 .. n}
    IN IF kind = "value" THEN T ELSE IF kind = "gradxy" THEN D ELSE T \cup D

\* The point vectors handed to an evaluator: xi and eta of one length.
PointVectors == UNION {[1 .. P -> RefCoords] : P \in 1 .. MaxPoints}

\* A constructor that records any count.
BasisFunction2DInitUnchecked(N) ==
    [pc |-> "constructed", num_shape_functions |-> N]

\* BasisFunction2D.__init__ (base class): records the count; a count that is
\* not a perfect square is a configuration error at construction.
BasisFunction2DInit(N) ==
    IF IsPerfectSquare(N)
    THEN [pc |-> "constructed", num_shape_functions |-> N]
    ELSE [pc |-> "ConfigurationError", num_shape_functions |-> 0]

NoBasisArgs == [N |-> 1, xi |-> <<0>>, eta |-> <<0>>]

BasisIdle ==
    /\ basis_pc = "none"
    /\ num_shape_functions = 0
    /\ basis_ret = NoValue

\* Basis2DQNChebyshev2(num_shape_functions)
BasisConstruct ==
    /\ basis_pc = "none"
    /\ LET obj == BasisFunction2DInit(basis_args.N)
       IN /\ basis_pc' = obj.pc
          /\ num_shape_functions' = obj.num_shape_functions
    /\ UNCHANGED <<basis_ret, basis_args, space_vars>>

\* basis.value(xi, eta), basis.gradx(xi, eta), ...
BasisEvaluate ==
    /\ basis_pc = "constructed"
    /\ \E kind \in Evaluators :
          basis_ret' = [kind |-> kind,
                        out |-> Evaluate(kind, num_shape_functions,
                                         basis_args.xi, basis_args.eta),
                        requests |-> Requests(kind, num_shape_functions)]
    /\ UNCHANGED <<basis_pc, num_shape_functions, basis_args, space_vars>>

(***************************************************************************)
(* Inputs of Fespace2D: the mesh, the boundary maps and the functions.     *)
(***************************************************************************)
\* Mesh cell i (1-based): an axis-aligned square with centre (cx, cy) and
\* half-width hw; orient = -1 lists the vertices clockwise (inverted cell).
MeshCell(i, inverted) ==
    [cx |-> 4 * i, cy |-> i, hw |-> 1 + (i % 2),
     orient |-> IF i = inverted THEN -1 ELSE 1]

Mesh(n, inverted) == [i \in 1 .. n |-> MeshCell(i, inverted)]

\* The points listed under a boundary tag: one or two points, or none.
TagPoints(tag, empty) ==
    IF empty THEN <<>>
    ELSE [j \in 1 .. (1 + ((tag - FirstTag) % 2)) |-> <<tag - FirstTag, j>>]

\* boundary_points (a dict, iterated in insertion order): a sequence of
\* [tag, pts] with distinct tags in ascending or descending tag order.
BoundaryMap(ntags, descending, emptyTag) ==
    [k \in 1 .. ntags |->
        LET tag == IF descending THEN FirstTag + ntags - k ELSE FirstTag + k - 1
        IN [tag |-> tag, pts |-> TagPoints(tag, tag = emptyTag)]]

BoundaryMaps ==
    {BoundaryMap(ntags, d, e) :
        ntags \in 0 .. MaxTags, d \in BOOLEAN, e \in {0} \cup Tags}

\* bound_function_dict[tag](x, y): every tag has its own function; a vector
\* problem's functions return one value per component.
BoundaryFunction(tag, kind, x, y) ==
    LET k == tag - FirstTag + 1
    IN IF kind = "scalar" THEN 10 * k + x + 2 * y
       ELSE <<10 * k + x + 2 * y, 20 * k + x - y>>

\* forcing_function(x, y)
ForcingFunction(kind, x, y) ==
    IF kind = "scalar" THEN x + 2 * y + 1
    ELSE <<x + y, 2 * x - y + 3>>

(***************************************************************************)
(* FE2D_Cell: the per-cell assembler (fastvpinns/FE_2D/FE2D_Cell.py).      *)
(***************************************************************************)
NumShapeFunctions(order) == order * order
NumQuad(order) == order * order

\* Reference quadrature point q of a tensor rule with `order` points per axis.
QuadXi(q, order) == 2 * ((q - 1) % order) - 1
QuadEta(q, order) == 2 * ((q - 1) \div order) - 1
QuadWeight(q) == 1

\* Reference values and gradients of shape function i at quadrature point q.
RefValue(i, q) == i + q
RefGradX(i, q) == i * q
RefGradY(i, q) == i - 2 * q

JacobianDet(cell) == cell.orient * cell.hw * cell.hw

\* A sum that stops one quadrature point short.
ForcingIntegralShort(basis, coords, fvals) ==
    [i \in DOMAIN basis |->
        <<SumSeq([q \in 1 .. (Len(basis[i]) - 1) |-> basis[i][q] * fvals[q]])>>]

\* forcing_integral[i] = sum_q basis_value[i, q] * f(x_q, y_q)
ForcingIntegral(basis, coords, fvals) ==
    [i \in DOMAIN basis |->
        <<SumSeq([q \in DOMAIN basis[i] |-> basis[i][q] * fvals[q]])>>]

\* The record a successfully assembled cell holds.
CellRecord(cell, order, qorder, kind, comp) ==
    LET N == NumShapeFunctions(order)
        Q == NumQuad(qorder)
        mult == [q \in 1 .. Q |-> <<QuadWeight(q) * Abs(JacobianDet(cell))>>]
        coords == [q \in 1 .. Q |->
                      <<cell.cx + cell.hw * QuadXi(q, qorder),
                        cell.cy + cell.hw * QuadEta(q, qorder)>>]
        basis == [i \in 1 .. N |-> [q \in 1 .. Q |-> RefValue(i, q) * mult[q][1]]]
        fvals == [q \in 1 .. Q |->
                     IF kind = "scalar"
                     THEN ForcingFunction(kind, coords[q][1], coords[q][2])
                     ELSE ForcingFunction(kind, coords[q][1], coords[q][2])[comp + 1]]
    IN [cell_coordinates |-> cell,
        num_shape_functions |-> N,
        basis_at_quad |-> basis,
        basis_gradx_at_quad |->
            [i \in 1 .. N |-> [q \in 1 .. Q |->
                RefGradX(i, q) * QuadWeight(q) * cell.hw]],
        basis_grady_at_quad |->
            [i \in 1 .. N |-> [q \in 1 .. Q |->
                RefGradY(i, q) * QuadWeight(q) * cell.hw]],
        basis_gradx_at_quad_ref |->
            [i \in 1 .. N |-> [q \in 1 .. Q |-> RefGradX(i, q)]],
        basis_grady_at_quad_ref |->
            [i \in 1 .. N |-> [q \in 1 .. Q |-> RefGradY(i, q)]],
        quad_actual_coordinates |-> coords,
        mult |-> mult,
        jacobian |-> [q \in 1 .. Q |-> JacobianDet(cell)],
        forcing_at_quad |-> ForcingIntegral(basis, coords, fvals)]

\* The component of a vector-valued forcing function that the record built
\* at construction holds.
ConstructionComponent == 0

\* An assembler that never looks at the sign of the determinant.
FE2D_CellUnchecked(cell, ctype, order, qorder, kind) ==
    IF ctype # QUAD THEN [err |-> "ConfigurationError", rec |-> NoValue]
    ELSE [err |-> "none", rec |-> CellRecord(cell, order, qorder, kind, ConstructionComponent)]

\* FE2D_Cell(cells[i], cell_type, fe_order, ..., forcing_function): the cell
\* type is checked before any numeric work, then the Jacobian determinant
\* at the quadrature points.
FE2D_Cell(cell, ctype, order, qorder, kind) ==
    IF ctype # QUAD THEN [err |-> "ConfigurationError", rec |-> NoValue]
    ELSE IF JacobianDet(cell) <= 0 THEN [err |-> "GeometricError", rec |-> NoValue]
    ELSE [err |-> "none", rec |-> CellRecord(cell, order, qorder, kind, ConstructionComponent)]

(***************************************************************************)
(* Fespace2D.__init__ and the methods it calls (fespace2d.py:74-329).      *)
(***************************************************************************)
Fresh == [fresh |-> TRUE, cell |-> 0, field |-> "none"]

NoRet == [op |-> "none", idx |-> 0, comp |-> 0, err |-> "none",
          val |-> NoValue, ref |-> Fresh]

SpaceIdle ==
    /\ n_cells = 0
    /\ fe_cell = <<>>
    /\ total_dofs = 0
    /\ total_boundary_dofs = 0
    /\ total_dirichlet_dofs = 0
    /\ dirichlet_boundary_data = NoValue
    /\ pc = "start"
    /\ error = "none"
    /\ failed_in = "none"
    /\ dof = 0
    /\ bx = <<>>
    /\ by = <<>>
    /\ ctor_calls = 0
    /\ ret = NoRet
    /\ shadow = <<>>

Init ==
    /\ cell_type \in CellTypes
    /\ \E n \in 0 .. MaxCells : \E inverted \in 0 .. n : cells = Mesh(n, inverted)
    /\ boundary_points \in BoundaryMaps
    /\ \E missing \in {0} \cup Tags : bound_function_dict = Tags \ {missing}
    /\ problem \in Problems
    /\ fe_order \in FeOrders
    /\ quad_order \in QuadOrders
    /\ generate_mesh_plot \in BOOLEAN
    /\ SpaceIdle
    /\ BasisIdle
    /\ basis_args = NoBasisArgs

Fail(where, what) ==
    /\ pc' = "failed"
    /\ failed_in' = where
    /\ error' = what

\* A guard that tests for another unsupported cell type.
CellTypeRejectedOther(ctype) == ctype = "hexagon"

\* The guard of lines 105-108.
CellTypeRejected(ctype) == ctype = "triangle"

\* Lines 94-126: store the arguments, reject a triangle mesh, reset the
\* counters, read n_cells and start with no cells.
CheckCellType ==
    /\ pc = "start"
    /\ IF CellTypeRejected(cell_type)
       THEN /\ Fail("__init__", "ValueError")
            /\ UNCHANGED <<n_cells, fe_cell, totals, locals, shadow>>
       ELSE /\ pc' = "set_finite_elements"
            /\ n_cells' = Len(cells)
            /\ fe_cell' = <<>>
            /\ shadow' = <<>>
            /\ total_dofs' = 0
            /\ total_boundary_dofs' = 0
            /\ total_dirichlet_dofs' = 0
            /\ dof' = 0
            /\ UNCHANGED <<bx, by, error, failed_in>>
    /\ UNCHANGED <<args, dirichlet_boundary_data, ctor_calls, ret, basis_vars>>

\* basis_at_quad.shape[0]: the rows, not the quadrature points.
QuadCountRows(rec) == Len(rec.basis_at_quad)

\* basis_at_quad.shape[1]
QuadCount(rec) == Len(rec.basis_at_quad[1])

\* A loop that stops one cell short.
CellsRemainingButLast(built, n) == built < n - 1

\* `for i in range(self.n_cells)` (line 175): passes remain to be made.
CellsRemaining(built, n) == built < n

\* Reading the mesh cells last to first.
LoopCellReversed(cellseq, i) == cellseq[Len(cellseq) + 1 - i]

\* self.cells[i] (line 178), i counted from one.
LoopCell(cellseq, i) == cellseq[i]

\* Lines 175-192: one pass of the loop of set_finite_elements.
BuildCell ==
    /\ pc = "set_finite_elements"
    /\ CellsRemaining(Len(fe_cell), n_cells)
    /\ ctor_calls' = ctor_calls + 1
    /\ LET i == Len(fe_cell) + 1
           built == FE2D_Cell(LoopCell(cells, i), cell_type, fe_order,
                              quad_order, problem)
       IN IF built.err # "none"
          THEN /\ Fail("FE2D_Cell", built.err)
               /\ UNCHANGED <<fe_cell, shadow, dof>>
          ELSE /\ fe_cell' = Append(fe_cell, built.rec)
               /\ shadow' = Append(shadow, built.rec)
               /\ dof' = dof + QuadCount(built.rec)
               /\ UNCHANGED <<pc, error, failed_in>>
    /\ UNCHANGED <<args, n_cells, totals, dirichlet_boundary_data, bx, by,
                   ret, basis_vars>>

\* Lines 193-215: the shapes of cell 0 are printed, then total_dofs is set.
FinishSetFiniteElements ==
    /\ pc = "set_finite_elements"
    /\ ~CellsRemaining(Len(fe_cell), n_cells)
    /\ IF ~PyInRange(fe_cell, 0)
       THEN /\ Fail("set_finite_elements", "IndexError")
            /\ UNCHANGED total_dofs
       ELSE /\ total_dofs' = dof
            /\ pc' = IF generate_mesh_plot THEN "generate_plot"
                     ELSE "generate_dirichlet_boundary_data"
            /\ UNCHANGED <<error, failed_in>>
    /\ UNCHANGED <<args, n_cells, fe_cell, shadow, total_boundary_dofs,
                   total_dirichlet_dofs, dirichlet_boundary_data, locals,
                   ctor_calls, ret, basis_vars>>

\* Lines 250-274: the quadrature points of all cells are counted again.
PlotQuadCount(cellseq) ==
    SumSeq([c \in DOMAIN cellseq |-> Len(cellseq[c].quad_actual_coordinates)])

\* Lines 279-290: x[0] of a tag without points and marker_list[i + 1] past
\* the marker list raise IndexError.
PlotBoundaryFails(bmap) ==
    \E k \in DOMAIN bmap : Len(bmap[k].pts) = 0 \/ k >= MarkerCount

\* Lines 276-292: every tag contributes its points and the repeated first one.
PlotBoundaryCount(bmap) ==
    SumSeq([k \in DOMAIN bmap |-> Len(bmap[k].pts) + 1])

\* Lines 217-306: generate_plot.
GeneratePlot ==
    /\ pc = "generate_plot"
    /\ total_dofs' = PlotQuadCount(fe_cell)
    /\ IF PlotBoundaryFails(boundary_points)
       THEN /\ Fail("generate_plot", "IndexError")
            /\ UNCHANGED total_boundary_dofs
       ELSE /\ total_boundary_dofs' = PlotBoundaryCount(boundary_points)
            /\ pc' = "generate_dirichlet_boundary_data"
            /\ UNCHANGED <<error, failed_in>>
    /\ UNCHANGED <<args, n_cells, fe_cell, shadow, total_dirichlet_dofs,
                   dirichlet_boundary_data, locals, ctor_calls, ret, basis_vars>>

\* Visiting the points of every tag last to first.
BoundaryVisitsBackwards(bmap) ==
    Concat([k \in DOMAIN bmap |->
               [j \in DOMAIN bmap[k].pts |->
                   [tag |-> bmap[k].tag,
                    pt |-> bmap[k].pts[Len(bmap[k].pts) + 1 - j]]]])

\* The nested loops of lines 314-316 and 337-339 visit the points tag by
\* tag in the mapping's order: the sequence of [tag, pt] they visit.
BoundaryVisits(bmap) ==
    Concat([k \in DOMAIN bmap |->
               [j \in DOMAIN bmap[k].pts |->
                   [tag |-> bmap[k].tag, pt |-> bmap[k].pts[j]]]])

\* np.array(v, dtype=np.float64).reshape(-1, 1)
Column(v, isVector) == IF isVector THEN [r \in DOMAIN v |-> <<v[r]>>] ELSE <<<<v>>>>

\* Lines 319-321: the value appended for one point.
DirichletValue(visit, kind) ==
    Column(BoundaryFunction(visit.tag, kind, visit.pt[1], visit.pt[2]),
           kind = "vector")

\* self.bound_function_dict[bound_id] finds an entry.
HasBoundaryFunction(tag, dict) == tag \in dict

\* Lines 316-322: one pass of the inner loop of generate_dirichlet_boundary_data.
DirichletStep ==
    /\ pc = "generate_dirichlet_boundary_data"
    /\ Len(bx) < Len(BoundaryVisits(boundary_points))
    /\ LET visit == BoundaryVisits(boundary_points)[Len(bx) + 1]
       IN IF ~HasBoundaryFunction(visit.tag, bound_function_dict)
          THEN /\ Fail("generate_dirichlet_boundary_data", "KeyError")
               /\ bx' = Append(bx, visit.pt)
               /\ UNCHANGED by
          ELSE /\ bx' = Append(bx, visit.pt)
               /\ by' = Append(by, DirichletValue(visit, problem))
               /\ UNCHANGED <<pc, error, failed_in>>
    /\ UNCHANGED <<args, n_cells, fe_cell, shadow, totals,
                   dirichlet_boundary_data, dof, ctor_calls, ret, basis_vars>>

\* Lines 324-329 and 137-158: the count is stored, the data returned and
\* kept, the table printed; the constructor returns.
DirichletFinish ==
    /\ pc = "generate_dirichlet_boundary_data"
    /\ Len(bx) = Len(BoundaryVisits(boundary_points))
    /\ total_dirichlet_dofs' = Len(bx)
    /\ dirichlet_boundary_data' = <<bx, by>>
    /\ pc' = "Ready"
    /\ UNCHANGED <<args, n_cells, fe_cell, shadow, total_dofs,
                   total_boundary_dofs, error, failed_in, locals, ctor_calls,
                   ret, basis_vars>>

(***************************************************************************)
(* The accessors of a constructed space (fespace2d.py:331-542).            *)
(***************************************************************************)
\* The cell indexes a caller passes: valid ones, negative ones, n_cells and
\* beyond.
CellIndexes == -(n_cells + 1) .. (n_cells + 1)

\* The values a caller writes into an array it was handed: none of them is
\* a value the space computes.
CallerValues == {-99}

\* accessor -> the field of the cell it returns (lines 349-422)
ArrayAccessors ==
    [get_shape_function_val |-> "basis_at_quad",
     get_shape_function_grad_x |-> "basis_gradx_at_quad",
     get_shape_function_grad_x_ref |-> "basis_gradx_at_quad_ref",
     get_shape_function_grad_y |-> "basis_grady_at_quad",
     get_shape_function_grad_y_ref |-> "basis_grady_at_quad_ref",
     get_quadrature_actual_coordinates |-> "quad_actual_coordinates",
     get_quadrature_weights |-> "mult"]

\* The fields the accessors of lines 349-479 hand out.
StoredArrays ==
    {ArrayAccessors[a] : a \in DOMAIN ArrayAccessors} \cup {"forcing_at_quad"}

\* `if cell_index > self.n_cells: raise ValueError` (lines 353, 363, ...)
IndexGuardRaises(cell_index, n) == cell_index > n

\* Returning the stored array itself.
ViewOfField(pos, field) == [fresh |-> FALSE, cell |-> pos, field |-> field]

\* `<array>.copy()`: the caller receives a new array, not the stored one.
CopyOfField(pos, field) == Fresh

Raised(op, idx, comp, what) ==
    [op |-> op, idx |-> idx, comp |-> comp, err |-> what, val |-> NoValue,
     ref |-> Fresh]

Returned(op, idx, comp, val, ref) ==
    [op |-> op, idx |-> idx, comp |-> comp, err |-> "none", val |-> val,
     ref |-> ref]

\* self.fe_cell[cell_index]: the position of the cell read, or IndexError.
ListLookup(idx) ==
    IF ~PyInRange(fe_cell, idx) THEN [err |-> "IndexError", pos |-> 0]
    ELSE [err |-> "none", pos |-> PyPos(fe_cell, idx)]

\* A lookup that wraps a non-negative index round the cell list.
ResolveCellIndexWrapping(idx) ==
    IF IndexGuardRaises(idx, n_cells) THEN [err |-> "ValueError", pos |-> 0]
    ELSE IF idx >= 0 THEN [err |-> "none", pos |-> (idx % n_cells) + 1]
    ELSE ListLookup(idx)

\* The guard of a per-cell accessor followed by self.fe_cell[cell_index].
ResolveCellIndex(idx) ==
    IF IndexGuardRaises(idx, n_cells) THEN [err |-> "ValueError", pos |-> 0]
    ELSE ListLookup(idx)

\* Lines 349-422: get_shape_function_val, get_shape_function_grad_x(_ref),
\* get_shape_function_grad_y(_ref), get_quadrature_actual_coordinates,
\* get_quadrature_weights.
GetArray ==
    /\ pc = "Ready"
    /\ \E op \in DOMAIN ArrayAccessors, idx \in CellIndexes :
          LET field == ArrayAccessors[op]
              cell == ResolveCellIndex(idx)
          IN ret' = IF cell.err # "none" THEN Raised(op, idx, 0, cell.err)
                    ELSE Returned(op, idx, 0, fe_cell[cell.pos][field],
                                  CopyOfField(cell.pos, field))
    /\ UNCHANGED <<args, n_cells, fe_cell, shadow, totals,
                   dirichlet_boundary_data, pc, error, failed_in, locals,
                   ctor_calls, basis_vars>>

\* Lines 440-453: f(x_q, y_q) at every quadrature point of a cell record.
ScalarForcingValues(rec) ==
    [q \in DOMAIN rec.quad_actual_coordinates |->
        ForcingFunction("scalar", rec.quad_actual_coordinates[q][1],
                        rec.quad_actual_coordinates[q][2])]

\* Lines 468-472: forcing_function(x, y)[component] on the coordinate
\* columns.  A vector function yields one array per component; a scalar
\* function yields one array, of which [component] is a single entry that
\* numpy then broadcasts over the quadrature points.
VectorForcingValues(rec, kind, component) ==
    [q \in DOMAIN rec.quad_actual_coordinates |->
        IF kind = "vector"
        THEN ForcingFunction(kind, rec.quad_actual_coordinates[q][1],
                             rec.quad_actual_coordinates[q][2])[component + 1]
        ELSE ForcingFunction(kind,
                             rec.quad_actual_coordinates[component + 1][1],
                             rec.quad_actual_coordinates[component + 1][2])]

\* An integral accumulated onto the stored one instead of onto zeros.
ScalarForcingAccumulating(rec) ==
    [i \in DOMAIN rec.basis_at_quad |->
        <<rec.forcing_at_quad[i][1] +
          ForcingIntegral(rec.basis_at_quad, rec.quad_actual_coordinates,
                          ScalarForcingValues(rec))[i][1]>>]

\* Lines 434-453.
ScalarForcing(rec) ==
    ForcingIntegral(rec.basis_at_quad, rec.quad_actual_coordinates,
                    ScalarForcingValues(rec))

\* Lines 467-477.
VectorForcing(rec, kind, component) ==
    ForcingIntegral(rec.basis_at_quad, rec.quad_actual_coordinates,
                    VectorForcingValues(rec, kind, component))

\* Storing the integral on every cell.
StoreForcingEverywhere(cellseq, pos, f_integral) ==
    [c \in DOMAIN cellseq |-> [cellseq[c] EXCEPT !.forcing_at_quad = f_integral]]

\* self.fe_cell[cell_index].forcing_at_quad = f_integral (lines 455, 477)
StoreForcing(cellseq, pos, f_integral) ==
    [cellseq EXCEPT ![pos].forcing_at_quad = f_integral]

\* Lines 424-457: get_forcing_function_values.  With a vector-valued
\* forcing function `f_integral[i] = val` stores a sequence in one entry and
\* raises ValueError before forcing_at_quad is assigned.
GetForcingFunctionValues ==
    /\ pc = "Ready"
    /\ \E idx \in CellIndexes :
          LET op == "get_forcing_function_values"
              cell == ResolveCellIndex(idx)
              pos == cell.pos
          IN IF cell.err # "none"
             THEN /\ ret' = Raised(op, idx, 0, cell.err)
                  /\ UNCHANGED <<fe_cell, shadow>>
             ELSE IF problem = "vector"
             THEN /\ ret' = Raised(op, idx, 0, "ValueError")
                  /\ UNCHANGED <<fe_cell, shadow>>
             ELSE /\ fe_cell' = StoreForcing(fe_cell, pos, ScalarForcing(fe_cell[pos]))
                  /\ shadow' = StoreForcing(shadow, pos, ScalarForcing(shadow[pos]))
                  /\ ret' = Returned(op, idx, 0, ScalarForcing(fe_cell[pos]),
                                     CopyOfField(pos, "forcing_at_quad"))
    /\ UNCHANGED <<args, n_cells, totals, dirichlet_boundary_data, pc, error,
                   failed_in, locals, ctor_calls, basis_vars>>

\* Lines 459-479: get_forcing_function_values_vector.
GetForcingFunctionValuesVector ==
    /\ pc = "Ready"
    /\ \E idx \in CellIndexes, component \in Components :
          LET op == "get_forcing_function_values_vector"
              cell == ResolveCellIndex(idx)
              pos == cell.pos
          IN IF cell.err # "none"
             THEN /\ ret' = Raised(op, idx, component, cell.err)
                  /\ UNCHANGED <<fe_cell, shadow>>
             ELSE /\ fe_cell' = StoreForcing(fe_cell, pos,
                                    VectorForcing(fe_cell[pos], problem, component))
                  /\ shadow' = StoreForcing(shadow, pos,
                                    VectorForcing(shadow[pos], problem, component))
                  /\ ret' = Returned(op, idx, component,
                                     VectorForcing(fe_cell[pos], problem, component),
                                     CopyOfField(pos, "forcing_at_quad"))
    /\ UNCHANGED <<args, n_cells, totals, dirichlet_boundary_data, pc, error,
                   failed_in, locals, ctor_calls, basis_vars>>

\* Lines 481-498: get_pde_data_for_training_lambda has no guard of its own;
\* it returns new tensors of the coordinates and the jacobian.
GetPdeDataForTrainingLambda ==
    /\ pc = "Ready"
    /\ \E idx \in CellIndexes :
          LET op == "get_pde_data_for_training_lambda"
              cell == ListLookup(idx)
          IN ret' = IF cell.err # "none"
                    THEN Raised(op, idx, 0, cell.err)
                    ELSE Returned(op, idx, 0,
                                  <<fe_cell[cell.pos].quad_actual_coordinates,
                                    fe_cell[cell.pos].jacobian>>, Fresh)
    /\ UNCHANGED <<args, n_cells, fe_cell, shadow, totals,
                   dirichlet_boundary_data, pc, error, failed_in, locals,
                   ctor_calls, basis_vars>>

\* np.array(main_data): axis 0 is the cell, then the row, then the column.
\* .T reverses the axes; np.squeeze(..., axis=0) drops the leading axis.
StackTransposeSqueeze(main_data) ==
    [i \in DOMAIN main_data[1] |->
        [c \in DOMAIN main_data |-> main_data[c][i][1]]]

\* Lines 522-542: get_forcing_data_for_training.
GetForcingDataForTraining ==
    /\ pc = "Ready"
    /\ ret' = Returned("get_forcing_data_for_training", 0, 0,
                       StackTransposeSqueeze(
                           [c \in 1 .. n_cells |-> fe_cell[c].forcing_at_quad]),
                       Fresh)
    /\ UNCHANGED <<args, n_cells, fe_cell, shadow, totals,
                   dirichlet_boundary_data, pc, error, failed_in, locals,
                   ctor_calls, basis_vars>>

\* Lines 342-344: the value appended for one point; a scalar function's
\* result cannot be indexed by the component.
DirichletVectorValue(visit, kind, component) ==
    <<<<BoundaryFunction(visit.tag, kind, visit.pt[1], visit.pt[2])[component + 1]>>>>

\* Lines 331-347: generate_dirichlet_boundary_data_vector.
GenerateDirichletBoundaryDataVector ==
    /\ pc = "Ready"
    /\ \E component \in Components :
          LET op == "generate_dirichlet_boundary_data_vector"
              visits == BoundaryVisits(boundary_points)
          IN ret' =
               IF \E v \in DOMAIN visits :
                      ~HasBoundaryFunction(visits[v].tag, bound_function_dict)
               THEN Raised(op, 0, component, "KeyError")
               ELSE IF visits # <<>> /\ problem = "scalar"
               THEN Raised(op, 0, component, "IndexError")
               ELSE Returned(op, 0, component,
                             <<[v \in DOMAIN visits |-> visits[v].pt],
                               [v \in DOMAIN visits |->
                                   DirichletVectorValue(visits[v], problem, component)]>>,
                             Fresh)
    /\ UNCHANGED <<args, n_cells, fe_cell, shadow, totals,
                   dirichlet_boundary_data, pc, error, failed_in, locals,
                   ctor_calls, basis_vars>>

\* The accessors whose result is a numpy array the caller may write to.
ArrayReturning ==
    DOMAIN ArrayAccessors \cup
        {"get_forcing_function_values", "get_forcing_function_values_vector"}

\* The caller overwrites an entry of the array it was handed.  Writing to a
\* copy changes the copy only; writing to the stored array changes the cell.
CallerMutates ==
    /\ pc = "Ready"
    /\ ret.err = "none"
    /\ ret.op \in ArrayReturning
    /\ ret.val[1][1] \notin CallerValues
    /\ \E v \in CallerValues :
          /\ ret' = [ret EXCEPT !.val[1][1] = v]
          /\ fe_cell' = IF ret.ref.fresh THEN fe_cell
                        ELSE [fe_cell EXCEPT ![ret.ref.cell][ret.ref.field][1][1] = v]
    /\ UNCHANGED <<args, n_cells, shadow, totals, dirichlet_boundary_data, pc,
                   error, failed_in, locals, ctor_calls, basis_vars>>

(***************************************************************************)
(* Construction of a space from any of the inputs, and the extraction of   *)
(* its boundary data.                                                      *)
(***************************************************************************)
Next ==
    \/ CheckCellType
    \/ BuildCell
    \/ FinishSetFiniteElements
    \/ GeneratePlot
    \/ DirichletStep
    \/ DirichletFinish
    \/ GenerateDirichletBoundaryDataVector

Spec == Init /\ [][Next]_vars

(***************************************************************************)
(* A space built from a quadrilateral mesh without a mesh plot, and every  *)
(* accessor called on it in any order by a caller that may write to the    *)
(* arrays it receives.                                                     *)
(***************************************************************************)
AccessInit ==
    /\ Init
    /\ cell_type = QUAD
    /\ generate_mesh_plot = FALSE
    /\ boundary_points = BoundaryMap(1, FALSE, 0)
    /\ bound_function_dict = Tags

AccessNext ==
    \/ CheckCellType
    \/ BuildCell
    \/ FinishSetFiniteElements
    \/ DirichletStep
    \/ DirichletFinish
    \/ GetArray
    \/ GetForcingFunctionValues
    \/ GetForcingFunctionValuesVector
    \/ GetPdeDataForTrainingLambda
    \/ GetForcingDataForTraining
    \/ GenerateDirichletBoundaryDataVector
    \/ CallerMutates

AccessSpec == AccessInit /\ [][AccessNext]_vars

(***************************************************************************)
(* The basis family on its own: construct one, then evaluate it.           *)
(***************************************************************************)
BasisInit ==
    /\ cell_type = QUAD
    /\ cells = <<>>
    /\ boundary_points = <<>>
    /\ bound_function_dict = Tags
    /\ problem = "scalar"
    /\ fe_order = 1
    /\ quad_order = 1
    /\ generate_mesh_plot = FALSE
    /\ SpaceIdle
    /\ BasisIdle
    /\ \E N \in 1 .. MaxShape, xi \in PointVectors, eta \in PointVectors :
          /\ Len(xi) = Len(eta)
          /\ basis_args = [N |-> N, xi |-> xi, eta |-> eta]

BasisNext == BasisConstruct \/ BasisEvaluate

BasisSpec == BasisInit /\ [][BasisNext]_vars

(***************************************************************************)
(* Properties.                                                             *)
(***************************************************************************)
PerCellAccessors ==
    DOMAIN ArrayAccessors \cup
        {"get_forcing_function_values", "get_forcing_function_values_vector",
         "get_pde_data_for_training_lambda"}

\* C1: with cell_type = "triangle" the constructor stops at its cell-type
\* check with a ValueError: no FE2D_Cell has been requested or built, no
\* boundary function has been evaluated, and the space is never ready.
C1_TriangleRejectedFirst ==
    cell_type = "triangle" =>
        /\ pc \in {"start", "failed"}
        /\ pc = "failed" => (error = "ValueError" /\ failed_in = "__init__")
        /\ fe_cell = <<>>
        /\ ctor_calls = 0
        /\ by = <<>>
        /\ ret.op = "none"

C1_Witness == cell_type = "triangle" /\ pc = "failed" /\ Len(cells) = MaxCells

\* C2: a per-cell accessor called with cell_index = n_cells raises (the
\* guard lets the index through, the list lookup raises IndexError), returns
\* no array and leaves every cell record as it was.
C2_IndexNCellsFails ==
    [][(ret'.op \in PerCellAccessors /\ ret'.idx = n_cells') =>
          /\ ret'.err \in {"ValueError", "IndexError"}
          /\ ret'.val = NoValue
          /\ fe_cell' = fe_cell]_vars

C2_Witness ==
    /\ pc = "Ready"
    /\ ret.op = "get_forcing_function_values"
    /\ ret.idx = n_cells
    /\ ret.err = "IndexError"

\* C3 (as claimed): a per-cell accessor called with a cell index outside
\* [0, n_cells) raises instead of returning some cell's data.
C3_OutOfRangeFails ==
    (ret.op \in PerCellAccessors /\ (ret.idx < 0 \/ ret.idx >= n_cells)) =>
        ret.err # "none"

\* C4: whatever the caller writes into the arrays the accessors returned,
\* every stored per-cell array equals what the space itself last wrote there.
C4_StoredArraysUntouched ==
    \A c \in DOMAIN fe_cell : \A f \in StoredArrays :
        fe_cell[c][f] = shadow[c][f]

C4_Witness ==
    /\ pc = "Ready"
    /\ ret.op = "get_shape_function_val"
    /\ ret.err = "none"
    /\ ret.val[1][1] \in CallerValues

MissingTags(bmap) ==
    {k \in DOMAIN bmap : bmap[k].tag \notin bound_function_dict}

\* The points listed before tag number k of the mapping.
Offset(k) == SumSeq([m \in 1 .. (k - 1) |-> Len(boundary_points[m].pts)])

\* C5 (as claimed): a tag of the boundary-point mapping without an entry in
\* the boundary-function dictionary keeps construction from completing and,
\* when extraction is where it fails, the failure is a lookup error; this
\* also when the tag lists no point.
C5_AnyMissingTagFails ==
    MissingTags(boundary_points) # {} =>
        /\ pc # "Ready"
        /\ failed_in = "generate_dirichlet_boundary_data" => error = "KeyError"

\* The value expected for a point of a tag: the tag's own function at the
\* point, as a column.
OwnValue(tag, pt) ==
    LET f == BoundaryFunction(tag, problem, pt[1], pt[2])
    IN IF problem = "scalar" THEN <<<<f>>>> ELSE <<<<f[1]>>, <<f[2]>>>>

OwnComponent(tag, pt, component) ==
    <<<<BoundaryFunction(tag, problem, pt[1], pt[2])[component + 1]>>>>

TotalPoints == Offset(Len(boundary_points) + 1)

\* C6: the extracted coordinates and values are parallel; the points of tag
\* number k of the mapping follow those of the tags before it, in their
\* listed order, and each value is the point's own tag's function at it
\* (its chosen component in the vector variant).
C6_ParallelBoundaryData ==
    /\ pc = "Ready" =>
          LET xs == dirichlet_boundary_data[1]
              ys == dirichlet_boundary_data[2]
          IN /\ Len(xs) = TotalPoints
             /\ Len(ys) = TotalPoints
             /\ \A k \in DOMAIN boundary_points :
                   \A j \in DOMAIN boundary_points[k].pts :
                      /\ xs[Offset(k) + j] = boundary_points[k].pts[j]
                      /\ ys[Offset(k) + j] =
                            OwnValue(boundary_points[k].tag, boundary_points[k].pts[j])
    /\ (ret.op = "generate_dirichlet_boundary_data_vector" /\ ret.err = "none") =>
          LET xs == ret.val[1]
              ys == ret.val[2]
          IN /\ Len(xs) = TotalPoints
             /\ Len(ys) = TotalPoints
             /\ \A k \in DOMAIN boundary_points :
                   \A j \in DOMAIN boundary_points[k].pts :
                      /\ xs[Offset(k) + j] = boundary_points[k].pts[j]
                      /\ ys[Offset(k) + j] =
                            OwnComponent(boundary_points[k].tag,
                                         boundary_points[k].pts[j], ret.comp)

C6_Witness ==
    /\ pc = "Ready"
    /\ Len(boundary_points) = 2
    /\ boundary_points[1].tag > boundary_points[2].tag
    /\ Len(dirichlet_boundary_data[1]) = 3
    /\ ret.op = "generate_dirichlet_boundary_data_vector"
    /\ ret.err = "none"
    /\ ret.comp = 1

\* C7: once the space is ready, total_dofs is the sum of the cells'
\* quadrature-point counts and total_dirichlet_dofs the number of points
\* listed under the boundary tags, with or without the mesh plot.
C7_Totals ==
    pc = "Ready" =>
        /\ total_dofs = SumSeq([c \in DOMAIN fe_cell |-> Len(fe_cell[c].mult)])
        /\ total_dirichlet_dofs =
              SumSeq([k \in DOMAIN boundary_points |-> Len(boundary_points[k].pts)])
        /\ total_dirichlet_dofs = Len(dirichlet_boundary_data[1])

C7_Witness ==
    /\ pc = "Ready"
    /\ generate_mesh_plot
    /\ n_cells = 2
    /\ total_dofs > 0
    /\ total_dirichlet_dofs = 3

IsConfigurationError ==
    \/ error = "ConfigurationError"
    \/ error = "ValueError" /\ failed_in = "__init__"

\* C8 (as claimed): for every cell type other than quadrilateral the
\* constructor ends in a configuration error, with no cell assembler
\* requested or built.
C8_NonQuadRejected ==
    (cell_type # QUAD /\ pc \in {"failed", "Ready"}) =>
        /\ pc = "failed"
        /\ IsConfigurationError
        /\ fe_cell = <<>>
        /\ ctor_calls = 0

\* C9 (as claimed): get_forcing_data_for_training returns a matrix with one
\* row per quadrature point of a cell and one column per cell, column c
\* holding the forcing integral stored for cell c.
C9_StackedShape ==
    ret.op = "get_forcing_data_for_training" =>
        /\ Len(ret.val) = NumQuad(quad_order)
        /\ \A i \in DOMAIN ret.val :
              /\ Len(ret.val[i]) = n_cells
              /\ \A c \in 1 .. n_cells :
                    ret.val[i][c] = fe_cell[c].forcing_at_quad[i][1]

\* C10: a basis family requested with a shape-function count that is not a
\* perfect square ends in a configuration error and evaluates nothing; an
\* evaluator of a constructed family writes every one of its N rows.
C10_NonSquareRejected ==
    LET N == basis_args.N
        square == \E r \in 1 .. N : r * r = N
    IN /\ (basis_pc # "none" /\ ~square) =>
              (basis_pc = "ConfigurationError" /\ basis_ret = NoValue)
       /\ basis_ret # NoValue =>
              /\ num_shape_functions = N
              /\ Len(basis_ret.out.values) = N
              /\ basis_ret.out.written = 1 .. N

C10_Witness ==
    /\ basis_pc = "ConfigurationError"
    /\ basis_args.N = 5
    /\ basis_ret = NoValue

Inverted(cellseq) == {i \in DOMAIN cellseq : cellseq[i].orient * cellseq[i].hw * cellseq[i].hw <= 0}

\* C11: a mesh with a cell of non-positive Jacobian determinant never yields
\* a ready space and no such cell ever enters the cell sequence; for a
\* quadrilateral mesh construction fails with a geometric error in the
\* assembly of the first such cell, the cells before it having been built.
C11_InvertedCellFails ==
    /\ \A c \in DOMAIN fe_cell : \A q \in DOMAIN fe_cell[c].jacobian :
          fe_cell[c].jacobian[q] > 0
    /\ Inverted(cells) # {} =>
          /\ pc # "Ready"
          /\ (cell_type = QUAD /\ pc = "failed") =>
                /\ error = "GeometricError"
                /\ failed_in = "FE2D_Cell"
                /\ Len(fe_cell) + 1 \in Inverted(cells)
                /\ \A i \in Inverted(cells) : Len(fe_cell) < i

C11_Witness ==
    /\ Len(cells) = MaxCells
    /\ Inverted(cells) = {MaxCells}
    /\ pc = "failed"
    /\ error = "GeometricError"
    /\ Len(fe_cell) = MaxCells - 1

\* The phases of construction in the order __init__ passes through them.
PhaseRank ==
    [start |-> 0, set_finite_elements |-> 1, generate_plot |-> 2,
     generate_dirichlet_boundary_data |-> 3, Ready |-> 4]

IsPrefix(s, t) == Len(s) <= Len(t) /\ \A k \in DOMAIN s : s[k] = t[k]

\* C12: construction passes through its phases in order and never back;
\* every mesh cell has its record before the first boundary point is taken
\* or boundary function evaluated; the boundary data is stored once, on the
\* step that makes the space ready, and is never replaced; a failure is
\* final and a failed construction never becomes ready.
C12_ConstructionOrder ==
    /\ [](/\ (bx # <<>> \/ by # <<>>) =>
                (Len(fe_cell) = Len(cells) /\ PhaseRank[IF pc = "failed" THEN failed_in ELSE pc] >= 3)
          /\ pc = "Ready" =>
                /\ Len(fe_cell) = Len(cells)
                /\ error = "none"
                /\ dirichlet_boundary_data = <<bx, by>>
          /\ dirichlet_boundary_data # NoValue => pc = "Ready"
          /\ pc = "failed" <=> error # "none")
    /\ [][/\ pc = "failed" => (pc' = "failed" /\ error' = error /\ fe_cell' = fe_cell)
          /\ pc = "Ready" => pc' = "Ready"
          /\ (pc # "failed" /\ pc' # "failed") => PhaseRank[pc'] >= PhaseRank[pc]
          /\ fe_cell' # fe_cell =>
                (pc = "set_finite_elements" /\ IsPrefix(fe_cell, fe_cell'))
          /\ IsPrefix(bx, bx') /\ IsPrefix(by, by')
          /\ by' # by => pc = "generate_dirichlet_boundary_data"
          /\ dirichlet_boundary_data' # dirichlet_boundary_data =>
                /\ pc = "generate_dirichlet_boundary_data"
                /\ pc' = "Ready"
                /\ dirichlet_boundary_data = NoValue]_vars

C12_Witness ==
    /\ pc = "Ready"
    /\ generate_mesh_plot
    /\ Len(fe_cell) = MaxCells
    /\ Len(by) = 3
    /\ ret.op = "generate_dirichlet_boundary_data_vector"

\* C15: a ready space holds exactly one record per mesh cell, and record i
\* is the one assembled from mesh cell i with the space's cell type, FE
\* order, quadrature order and forcing function.
C15_MeshOrder ==
    pc = "Ready" =>
        /\ n_cells = Len(cells)
        /\ Len(fe_cell) = Len(cells)
        /\ \A i \in DOMAIN cells :
              /\ fe_cell[i].cell_coordinates = cells[i]
              /\ fe_cell[i].num_shape_functions = fe_order * fe_order
              /\ Len(fe_cell[i].quad_actual_coordinates) = quad_order * quad_order
              /\ fe_cell[i] =
                    FE2D_Cell(cells[i], cell_type, fe_order, quad_order, problem).rec

C15_Witness ==
    /\ pc = "Ready"
    /\ Len(fe_cell) = MaxCells
    /\ fe_cell[1].cell_coordinates # fe_cell[MaxCells].cell_coordinates
    /\ fe_order = 2
    /\ problem = "vector"

ForcingOps == {"get_forcing_function_values", "get_forcing_function_values_vector"}

\* The last call was a successful forcing computation and the caller has not
\* written to the array it returned.
ForcingReturned(r) ==
    /\ r.op \in ForcingOps
    /\ r.err = "none"
    /\ r.val[1][1] \notin CallerValues

\* The cell Python's list indexing reads for a cell index, counted from one.
CalledCell(idx, n) == IF idx >= 0 THEN idx + 1 ELSE n + idx + 1

\* C13: when a forcing computation for a valid cell has just returned (the
\* cell stores what was returned) and the same accessor is called again with
\* the same cell index and component, the second call returns an equal array
\* and leaves every cell record, the cell's forcing integral included, as
\* the first call left it.
C13_ForcingIdempotent ==
    [][(/\ ForcingReturned(ret)
        /\ ret.idx \in 0 .. (n_cells - 1)
        /\ fe_cell[ret.idx + 1].forcing_at_quad = ret.val
        /\ ForcingReturned(ret')
        /\ ret'.op = ret.op
        /\ ret'.idx = ret.idx
        /\ ret'.comp = ret.comp) =>
          /\ ret'.val = ret.val
          /\ fe_cell' = fe_cell
          /\ fe_cell'[ret.idx + 1].forcing_at_quad = ret.val]_vars

C13_Witness ==
    /\ pc = "Ready"
    /\ problem = "vector"
    /\ ForcingReturned(ret)
    /\ ret.comp = 1
    /\ ret.idx = n_cells - 1
    /\ n_cells = MaxCells
    /\ fe_cell[n_cells].forcing_at_quad = ret.val
    /\ fe_cell[n_cells].forcing_at_quad #
          FE2D_Cell(cells[n_cells], cell_type, fe_order, quad_order, problem).rec.forcing_at_quad
    /\ fe_cell[n_cells].forcing_at_quad # fe_cell[1].forcing_at_quad

\* C14: on a ready space no step changes the phase, the arguments, the cell
\* count, the totals or the stored boundary data; no step changes a field of
\* a cell record other than its forcing integral; and a cell's forcing
\* integral changes only by a successful forcing computation called on that
\* cell (the cell Python's indexing reads for the index passed).
C14_AccessorFrame ==
    [][pc = "Ready" =>
          /\ pc' = "Ready"
          /\ args' = args
          /\ n_cells' = n_cells
          /\ totals' = totals
          /\ dirichlet_boundary_data' = dirichlet_boundary_data
          /\ Len(fe_cell') = Len(fe_cell)
          /\ \A c \in DOMAIN fe_cell :
                /\ \A f \in DOMAIN fe_cell[c] \ {"forcing_at_quad"} :
                      fe_cell'[c][f] = fe_cell[c][f]
                /\ fe_cell'[c].forcing_at_quad # fe_cell[c].forcing_at_quad =>
                      /\ ret'.op \in ForcingOps
                      /\ ret'.err = "none"
                      /\ c = CalledCell(ret'.idx, n_cells)]_vars

C14_Witness ==
    /\ pc = "Ready"
    /\ n_cells = MaxCells
    /\ problem = "vector"
    /\ ForcingReturned(ret)
    /\ ret.comp = 1
    /\ ret.idx = 0
    /\ fe_cell[1].forcing_at_quad = ret.val
    /\ \A c \in 2 .. n_cells :
          fe_cell[c] = FE2D_Cell(cells[c], cell_type, fe_order, quad_order, problem).rec
    /\ fe_cell[1].forcing_at_quad #
          FE2D_Cell(cells[1], cell_type, fe_order, quad_order, problem).rec.forcing_at_quad

\* sum over the quadrature points q of basis_value[i, q] * f(x_q, y_q), f
\* being the forcing function or the chosen component of it.
PlainSum(rec, i, kind, component) ==
    SumSeq([q \in DOMAIN rec.quad_actual_coordinates |->
               LET x == rec.quad_actual_coordinates[q][1]
                   y == rec.quad_actual_coordinates[q][2]
               IN rec.basis_at_quad[i][q] *
                     (IF kind = "scalar" THEN x + 2 * y + 1
                      ELSE IF component = 0 THEN x + y ELSE 2 * x - y + 3)])

\* C16: after get_forcing_function_values on a scalar forcing function, or
\* get_forcing_function_values_vector on a vector one, the array returned
\* (where the caller has not written to it) and the array stored have
\* shape (N, 1), and entry i is the plain sum over the quadrature points of
\* basis_value[i, q] times the forcing at the point.
C16_ForcingIsPlainSum ==
    (/\ ret.op \in ForcingOps
     /\ ret.err = "none"
     /\ ret.op = "get_forcing_function_values_vector" => problem = "vector") =>
        LET c == CalledCell(ret.idx, n_cells)
            rec == fe_cell[c]
            N == rec.num_shape_functions
        IN /\ Len(ret.val) = N
           /\ Len(rec.forcing_at_quad) = N
           /\ N = Len(rec.basis_at_quad)
           /\ \A i \in 1 .. N :
                 /\ Len(ret.val[i]) = 1
                 /\ rec.forcing_at_quad[i] = <<PlainSum(rec, i, problem, ret.comp)>>
                 /\ \/ ret.val[i][1] = PlainSum(rec, i, problem, ret.comp)
                    \/ i = 1 /\ ret.val[1][1] \in CallerValues

C16_Witness ==
    /\ pc = "Ready"
    /\ ret.op = "get_forcing_function_values"
    /\ ret.err = "none"
    /\ ret.idx = n_cells - 1
    /\ fe_order = 2
    /\ ret.val[4][1] # 0
    /\ ret.val[1][1] \notin CallerValues

\* The 1D factors an evaluator multiplies: the test function, its first or
\* its second derivative, per axis.
FactorOrders ==
    [value |-> <<0, 0>>, gradx |-> <<1, 0>>, grady |-> <<0, 1>>,
     gradxx |-> <<2, 0>>, gradxy |-> <<1, 1>>, gradyy |-> <<0, 2>>]

\* Derivative number d of the test function T_(k+1) - T_(k-1) at x.
Factor(d, k, x) ==
    IF d = 0 THEN ChebT(k + 1, x) - ChebT(k - 1, x)
    ELSE IF d = 1 THEN ChebDT(k + 1, x) - ChebDT(k - 1, x)
    ELSE ChebDDT(k + 1, x) - ChebDDT(k - 1, x)

\* C17: an evaluator of a family of N = n * n shape functions returns N
\* rows of P columns, row i*n + j being the product, point by point, of
\* x-factor i and y-factor j, each the test function or the derivative of
\* it that the evaluator names; every row is written exactly once.
C17_TensorProductRows ==
    basis_ret # NoValue =>
        LET N == basis_args.N
            P == Len(basis_args.xi)
            out == basis_ret.out
            d == FactorOrders[basis_ret.kind]
        IN \A n \in 1 .. N :
              n * n = N =>
              /\ Len(out.values) = N
              /\ \A r \in 1 .. N : Len(out.values[r]) = P /\ out.writes[r] = 1
              /\ \A i \in 0 .. (n - 1), j \in 0 .. (n - 1), p \in 1 .. P :
                    out.values[i * n + j + 1][p] =
                        Factor(d[1], i + 1, basis_args.xi[p]) *
                        Factor(d[2], j + 1, basis_args.eta[p])

C17_Witness ==
    /\ basis_ret # NoValue
    /\ basis_ret.kind = "gradxy"
    /\ basis_args.N = 4
    /\ basis_args.xi = <<1>>
    /\ basis_args.eta = <<0>>
    /\ basis_ret.out.values[2][1] # basis_ret.out.values[3][1]

Degrees(terms) == [t \in DOMAIN terms |-> terms[t].deg]

\* C18: whatever an evaluator computes, every Jacobi polynomial it asks for
\* has a non-negative degree: test function k asks for degrees k+1 and k-1,
\* its first derivative for degree k and, from k = 2 on, k-2, its second
\* derivative for degree k-1 and, from k = 3 on, k-3; every index k of
\* 1 .. n is computed.
C18_NoNegativeDegree ==
    basis_ret # NoValue =>
        /\ \A r \in basis_ret.requests :
              /\ \A t \in DOMAIN r.terms : r.terms[t].deg >= 0 /\ r.terms[t].norm >= 0
              /\ r.fn = "test_fcn" => Degrees(r.terms) = <<r.k + 1, r.k - 1>>
              /\ r.fn = "d1test" =>
                    Degrees(r.terms) = IF r.k >= 2 THEN <<r.k, r.k - 2>> ELSE <<r.k>>
              /\ r.fn = "d2test" =>
                    Degrees(r.terms) = IF r.k >= 3 THEN <<r.k - 1, r.k - 3>>
                                       ELSE <<r.k - 1>>
        /\ \A k \in 1 .. basis_args.N :
              k * k <= basis_args.N =>
                 \E r \in basis_ret.requests : r.k = k

C18_Witness ==
    /\ basis_ret # NoValue
    /\ basis_ret.kind = "gradxx"
    /\ \E r \in basis_ret.requests :
          r.fn = "d2test" /\ r.k = 3 /\ Len(r.terms) = 2 /\ r.terms[2].deg = 0
    /\ \E r \in basis_ret.requests : r.fn = "d2test" /\ r.k = 2 /\ Len(r.terms) = 1
    /\ \E r \in basis_ret.requests : r.fn = "d1test" /\ r.k = 1 /\ Len(r.terms) = 1

=============================================================================
